---- MODULE Spec2Model ----
(***************************************************************************)
(* Model of xerox-rs (src/main.rs): a one-shot migration of a directory    *)
(* tree from a source mount to a target mount.  main builds a catalog with *)
(* visit_dirs, replicates the directories in parallel, then fetches and    *)
(* copies every file in parallel.                                          *)
(*                                                                         *)
(* Paths are sequences of name numbers; one file-system namespace holds    *)
(* both mounts.  The parallel iterators of rayon are modelled as one task  *)
(* per item, any number of them running at a time; an iterator stops       *)
(* handing out items once one task has returned Err.                       *)
(***************************************************************************)
EXTENDS Integers, Sequences, FiniteSets, TLC

\* ------------------------------------------------------------------ bounds
\* Largest reported length of a file (0 is a stub).
MaxSize == 2

\* ------------------------------------------------------------------ paths
\* args.source and args.target
SourceRoot == <<1>>
TargetRoot == <<2>>

\* The tree the source mount may hold below its root: f, a/, a/g, a/b/, a/h.
FileNodes == {<<1>>, <<2, 1>>, <<2, 3>>}
DirNodes == {<<2>>, <<2, 2>>}
RelNodes == FileNodes \cup DirNodes

SourcePaths == {SourceRoot} \cup {SourceRoot \o r : r \in RelNodes}
TargetPaths == {TargetRoot} \cup {TargetRoot \o r : r \in RelNodes}
AllPaths == SourcePaths \cup TargetPaths

Front(s) == SubSeq(s, 1, Len(s) - 1)
Last(s) == s[Len(s)]

\* Path::parent().unwrap_or(Path::new(""))
Parent(p) == IF p = <<>> THEN <<>> ELSE Front(p)

\* Path::strip_prefix(base).unwrap_or(p)
StripPrefix(p, base) ==
    IF Len(base) <= Len(p) /\ SubSeq(p, 1, Len(base)) = base
    THEN SubSeq(p, Len(base) + 1, Len(p))
    ELSE p

\* Path::join of a relative path
Join(base, rel) == base \o rel

\* DirEntry::file_name
FileName(p) == <<Last(p)>>

\* Ord of Path: lexicographic on the components.
RECURSIVE PathLess(_, _)
PathLess(p, q) ==
    IF q = <<>> THEN FALSE
    ELSE IF p = <<>> THEN TRUE
    ELSE IF Head(p) # Head(q) THEN Head(p) < Head(q)
    ELSE PathLess(Tail(p), Tail(q))

\* Option<u64>: None is <<>>, Some(n) is <<n>>.
None == <<>>
Some(n) == <<n>>

\* Ord of Option<u64>: None is below every Some.
OptLess(a, b) ==
    IF b = None THEN FALSE
    ELSE IF a = None THEN TRUE
    ELSE a[1] < b[1]

\* Option::unwrap_or
UnwrapOr(a, d) == IF a = None THEN d ELSE a[1]

Sizes == {None} \cup {Some(n) : n \in 0..MaxSize}

\* Content of a file that stood in the target before the run.
OldData == <<0>>
NoData == <<>>

VARIABLES
    kind,      \* file system: path -> "absent" | "file" | "dir" | "other"
    data,      \* file system: content of the file at a path
    len,       \* file system: length the metadata of a path reports (None: no metadata)
    locked,    \* file system: directories whose read_dir fails
    kind0,     \* kind when main started its first run
    data0,     \* data when main started its first run
    run,       \* 1: first run of main, 2: a second run on the target of the first
    mainpc,    \* position of main: "visit" | "dirs" | "files" | "done"
    result,    \* return value of main: "none" | "Ok" | "Err"
    visitOk,   \* whether visit_dirs(root) returned Ok
    dupd,      \* whether the traversal had gathered some path twice before the merge
    files,     \* catalog: Vec<DirEntry>, as paths
    dirs,      \* catalog: Vec<PathBuf>
    dpc,       \* per directory item: "idle" | "create" | "ok" | "err" | "skipped"
    dfull,     \* try_for_each has seen an Err
    fpc,       \* per file item: position of its task, see the actions
    ffull,     \* collect::<Result<..>> has seen an Err
    retries,   \* per file item: local retries of fetch_file_with_progress
    opens,     \* per file item: File::open calls of the current fetch
    sleeps,    \* per file item: thread::sleep calls of the current fetch
    outcome    \* per file item: what its task did, for the report

fsvars == <<kind, data, len, locked>>
histvars == <<kind0, data0>>
catvars == <<visitOk, dupd, files, dirs>>
dirvars == <<dpc, dfull>>
filevars == <<fpc, ffull, retries, opens, sleeps, outcome>>
vars == <<kind, data, len, locked, kind0, data0, run, mainpc, result, visitOk,
          dupd, files, dirs, dpc, dfull, fpc, ffull, retries, opens, sleeps, outcome>>

\* ------------------------------------------------------------------ file system
\* is_file() where exists() is meant.
ExistsAsFile(p) == p \in AllPaths /\ kind[p] = "file"

\* Path::exists / is_file / is_dir
Exists(p) == p \in AllPaths /\ kind[p] # "absent"
IsFile(p) == p \in AllPaths /\ kind[p] = "file"
IsDir(p) == p \in AllPaths /\ kind[p] = "dir"

\* get_file_size: entry.metadata().ok().map(|m| m.len())
get_file_size(p) == len[p]

\* The names a directory holds.
Children(dir) == {p \in AllPaths : Len(p) = Len(dir) + 1 /\ Front(p) = dir /\ kind[p] # "absent"}

\* A set of paths as a sequence in ascending (rev = FALSE) or descending order.
RECURSIVE Listing(_, _)
Listing(S, rev) ==
    IF S = {} THEN <<>>
    ELSE LET first == CHOOSE p \in S : \A q \in S \ {p} :
                          IF rev THEN PathLess(q, p) ELSE PathLess(p, q)
         IN <<first>> \o Listing(S \ {first}, rev)

\* fs::read_dir(dir) collected: the children in the order the system lists them;
\* an entry renamed during the listing (dup) is listed a second time, at the end.
ReadDir(dir, rev, dup) ==
    Listing(Children(dir), rev) \o (IF dup \in Children(dir) THEN <<dup>> ELSE <<>>)

\* ------------------------------------------------------------------ visit_dirs
RECURSIVE InsertByPath(_, _)
InsertByPath(s, x) ==
    IF s = <<>> THEN <<x>>
    ELSE IF PathLess(x, Last(s)) THEN Append(InsertByPath(Front(s), x), Last(s))
    ELSE Append(s, x)

\* par_sort_by_key(|a| a.path()) and par_sort_unstable of paths
RECURSIVE SortByPath(_)
SortByPath(s) == IF s = <<>> THEN <<>> ELSE InsertByPath(SortByPath(Front(s)), Last(s))

\* Vec::dedup: drops an element equal to the one before it.
RECURSIVE Dedup(_)
Dedup(s) ==
    IF Len(s) <= 1 THEN s
    ELSE LET d == Dedup(Front(s))
         IN IF Last(d) = Last(s) THEN d ELSE Append(d, Last(s))

\* Position of x in the stable sort by |a, b| get_file_size(b).cmp(&get_file_size(a)).
RECURSIVE InsertBySize(_, _)
InsertBySize(s, x) ==
    IF s = <<>> THEN <<x>>
    ELSE IF OptLess(get_file_size(Last(s)), get_file_size(x))
         THEN Append(InsertBySize(Front(s), x), Last(s))
    ELSE Append(s, x)

\* The catalog left in path order.
SortBySizeSkipped(s) == s

\* files.par_sort_by(...): largest first, stable
RECURSIVE SortBySize(_)
SortBySize(s) == IF s = <<>> THEN <<>> ELSE InsertBySize(SortBySize(Front(s)), Last(s))

\* Whether a list holds some path twice.
HasDup(s) == \E i, j \in DOMAIN s : i < j /\ s[i] = s[j]

\* dedup_by without the sort before it: only neighbours are compared.
DedupFilesUnsorted(fs) == Dedup(fs)

\* The file list sorted by path with nothing dropped.
DedupFilesNone(fs) == SortByPath(fs)

\* Lines 164-166 and 168-169: sort by path, then drop the repeated paths.
DedupFiles(fs) == Dedup(SortByPath(fs))
DedupDirs(ds) == Dedup(SortByPath(ds))

\* Lines 164-174: the merge step of visit_dirs; dupd notes that this call or a
\* call below it had gathered some path twice.
Finish(fs, ds, below) ==
    [ok |-> TRUE, files |-> SortBySize(DedupFiles(fs)), dirs |-> DedupDirs(ds),
     dupd |-> below \/ HasDup(fs) \/ HasDup(ds)]

VisitErr == [ok |-> FALSE, files |-> <<>>, dirs |-> <<>>, dupd |-> FALSE]

\* visit_dirs(dir): rev and dup are what read_dir does in this traversal.
RECURSIVE visit_dirs(_, _, _)
RECURSIVE MergeSubDirs(_, _, _, _, _, _)
\* Lines 140-159: for each listed directory whose visit returned Ok, push it and
\* extend with its files and directories; an entry that is neither a file nor a
\* directory, or a directory whose visit failed, is left out.
MergeSubDirs(entries, rev, dup, fs, ds, below) ==
    IF entries = <<>> THEN [files |-> fs, dirs |-> ds, dupd |-> below]
    ELSE LET path == Head(entries)
             sub == visit_dirs(path, rev, dup)
         IN IF IsDir(path) /\ sub.ok
            THEN MergeSubDirs(Tail(entries), rev, dup, fs \o sub.files,
                              (ds \o <<path>>) \o sub.dirs, below \/ sub.dupd)
            ELSE MergeSubDirs(Tail(entries), rev, dup, fs, ds, below)

\* visit_dirs with ? on the visit of a subdirectory: a directory holding an
\* unreadable subdirectory fails as a whole.
visit_dirs_strict(dir, rev, dup) ==
    IF IsDir(dir)
    THEN IF dir \in locked \/ Children(dir) \cap locked # {}
         THEN VisitErr
         ELSE LET entries == ReadDir(dir, rev, dup)
                  own == SelectSeq(entries, IsFile)
                  m == MergeSubDirs(entries, rev, dup, own, <<>>, FALSE)
              IN Finish(m.files, m.dirs, m.dupd)
    ELSE Finish(<<>>, <<>>, FALSE)

visit_dirs(dir, rev, dup) ==
    IF IsDir(dir)
    THEN IF dir \in locked
         THEN VisitErr
         ELSE LET entries == ReadDir(dir, rev, dup)
                  own == SelectSeq(entries, IsFile)
                  m == MergeSubDirs(entries, rev, dup, own, <<>>, FALSE)
              IN Finish(m.files, m.dirs, m.dupd)
    ELSE Finish(<<>>, <<>>, FALSE)

\* ------------------------------------------------------------------ initial states
Src(r) == Join(SourceRoot, r)
Tgt(r) == Join(TargetRoot, r)

\* Ancestors of a path below (and including) a root, the path itself included.
Prefixes(p) == {SubSeq(p, 1, n) : n \in 1..Len(p)}

\* A source tree: the root is a directory, a regular file or missing; below a
\* directory root, f is a file or something that is neither file nor directory,
\* a is a directory holding g and possibly h and the empty directory b.
SourceTree(root, kf, kb, kh) ==
    [p \in SourcePaths |->
        IF p = SourceRoot THEN root
        ELSE IF root # "dir" THEN "absent"
        ELSE IF p = Src(<<1>>) THEN kf
        ELSE IF p = Src(<<2>>) THEN "dir"
        ELSE IF p = Src(<<2, 1>>) THEN "file"
        ELSE IF p = Src(<<2, 2>>) THEN kb
        ELSE kh]

\* What stands in the target before the first run, at the mirror of f or of a/g.
PreExisting == {{}, {<<1>>}, {<<2, 1>>}}

\* The file systems main may start on; hs is what h may be, pk is whether a file
\* or a directory stands at the mirror of f.
InitFs(hs) ==
    \E root \in {"dir", "file", "absent"}, kf \in {"file", "other"},
       kb \in {"dir", "absent"}, kh \in hs,
       sf \in Sizes, sg \in Sizes, sh \in Sizes,
       pre \in PreExisting, pk \in {"file", "dir"}, troot \in {"dir", "absent"} :
      LET sk == SourceTree(root, kf, kb, kh)
          tdirs == IF pre = {} THEN (IF troot = "dir" THEN {TargetRoot} ELSE {})
                   ELSE UNION {Prefixes(Tgt(Parent(r))) : r \in pre}
          srcFiles == {p \in SourcePaths : sk[p] = "file"}
          tfiles == {Tgt(r) : r \in {q \in pre : q # <<1>> \/ pk = "file"}}
      IN /\ pre # {} => troot = "dir"
         /\ kind = [p \in AllPaths |->
                      IF p \in SourcePaths THEN sk[p]
                      ELSE IF p \in tdirs THEN "dir"
                      ELSE IF p \in tfiles THEN "file"
                      ELSE IF \E r \in pre : p = Tgt(r) THEN pk
                      ELSE "absent"]
         /\ data = [p \in AllPaths |->
                      IF p \in srcFiles THEN p
                      ELSE IF p \in tfiles THEN OldData
                      ELSE NoData]
         /\ len = [p \in AllPaths |->
                      IF p \notin srcFiles THEN None
                      ELSE IF p = Src(<<1>>) THEN sf
                      ELSE IF p = Src(<<2, 1>>) THEN sg
                      ELSE sh]
         /\ locked \in {{}} \cup {{d} : d \in {p \in SourcePaths : sk[p] = "dir"}}

NoItems == <<>>

InitRest ==
    /\ kind0 = kind
    /\ data0 = data
    /\ run = 1
    /\ mainpc = "visit"
    /\ result = "none"
    /\ visitOk = FALSE
    /\ dupd = FALSE
    /\ files = <<>>
    /\ dirs = <<>>
    /\ dpc = NoItems
    /\ dfull = FALSE
    /\ fpc = NoItems
    /\ ffull = FALSE
    /\ retries = NoItems
    /\ opens = NoItems
    /\ sleeps = NoItems
    /\ outcome = NoItems

\* main starts on a source tree of at most two files: f and a/g, or a/g and a/h.
Init ==
    /\ InitFs({"file", "absent"})
    /\ Cardinality({p \in SourcePaths : kind[p] = "file"}) <= 2
    /\ InitRest

\* ------------------------------------------------------------------ main: catalog
Idle(n) == [i \in 1..n |-> "idle"]
Zero(n) == [i \in 1..n |-> 0]
Blank(n) == [i \in 1..n |-> "none"]

\* Lines 194-200: visit_dirs(&box_dir); an Err ends main with that Err.
Visit(rev, dup) ==
    /\ mainpc = "visit"
    /\ \E v \in {visit_dirs(SourceRoot, rev, dup)} :
          /\ visitOk' = v.ok
          /\ dupd' = v.dupd
          /\ files' = v.files
          /\ dirs' = v.dirs
          /\ dpc' = Idle(Len(v.dirs))
          /\ fpc' = Idle(Len(v.files))
          /\ retries' = Zero(Len(v.files))
          /\ opens' = Zero(Len(v.files))
          /\ sleeps' = Zero(Len(v.files))
          /\ outcome' = Blank(Len(v.files))
          /\ mainpc' = IF v.ok THEN "dirs" ELSE "done"
          /\ result' = IF v.ok THEN "none" ELSE "Err"
    /\ UNCHANGED <<fsvars, histvars, run, dfull, ffull>>

\* ------------------------------------------------------------------ directories
\* Line 34-35: the directory create_target_directory_structure works on.
target_path_of(source) == Join(TargetRoot, Parent(StripPrefix(source, SourceRoot)))

\* fs::create_dir_all(p): every missing ancestor and p itself become directories;
\* it fails when a component is there and is no directory.
CanCreateDirAll(p) == \A q \in Prefixes(p) : q \in AllPaths => kind[q] \in {"absent", "dir"}
CreateDirAll(p) == [q \in AllPaths |-> IF q \in Prefixes(p) THEN "dir" ELSE kind[q]]

\* A create that fails on a directory that is already there.
CreateDirAllStrict(p, ok) == ok /\ CanCreateDirAll(p) /\ ~Exists(p)

\* Line 38: whether fs::create_dir_all(p) returns Ok; a directory that is already
\* there is Ok, otherwise ok is whether the system lets the directory be made.
CreateDirAllOk(p, ok) == IsDir(p) \/ (ok /\ CanCreateDirAll(p))

\* The test of line 37 left out: the directory is taken to be there.
DirPresentAlways(p) == TRUE

\* Line 37: target_path.exists()
DirPresent(p) == Exists(p)

\* Lines 203-204, 34-37: a worker takes a directory and tests target_path.exists().
DirBegin(i) ==
    /\ mainpc = "dirs"
    /\ dpc[i] = "idle"
    /\ ~dfull
    /\ dpc' = [dpc EXCEPT ![i] = IF DirPresent(target_path_of(dirs[i])) THEN "ok" ELSE "create"]
    /\ UNCHANGED <<fsvars, histvars, catvars, filevars, run, mainpc, result, dfull>>

\* Lines 38, 204-206: fs::create_dir_all(&target_path)?; ok is whether the system
\* lets the directory be made.
DirCreate(i, ok) ==
    /\ mainpc = "dirs"
    /\ dpc[i] = "create"
    /\ IF CreateDirAllOk(target_path_of(dirs[i]), ok)
       THEN /\ kind' = CreateDirAll(target_path_of(dirs[i]))
            /\ dpc' = [dpc EXCEPT ![i] = "ok"]
            /\ dfull' = dfull
       ELSE /\ kind' = kind
            /\ dpc' = [dpc EXCEPT ![i] = "err"]
            /\ dfull' = TRUE
    /\ UNCHANGED <<data, len, locked, histvars, catvars, filevars, run, mainpc, result>>

\* try_for_each hands out no further item once one returned Err.
DirSkip(i) ==
    /\ mainpc = "dirs"
    /\ dpc[i] = "idle"
    /\ dfull
    /\ dpc' = [dpc EXCEPT ![i] = "skipped"]
    /\ UNCHANGED <<fsvars, histvars, catvars, filevars, run, mainpc, result, dfull>>

\* Line 207: the ? after try_for_each.
DirsDone ==
    /\ mainpc = "dirs"
    /\ \A i \in DOMAIN dpc : dpc[i] \in {"ok", "err", "skipped"}
    /\ IF \E i \in DOMAIN dpc : dpc[i] = "err"
       THEN mainpc' = "done" /\ result' = "Err"
       ELSE mainpc' = "files" /\ result' = result
    /\ UNCHANGED <<fsvars, histvars, catvars, dirvars, filevars, run>>

\* ------------------------------------------------------------------ files
\* Line 80: the retry limit.
MaxRetries == 5

\* The retry loop gives up one turn later than line 80 does.
ExhaustedLate(n) == n > MaxRetries

\* Line 80: retries >= 5
Exhausted(n) == n >= MaxRetries

\* Line 78: the error kinds that are retried.
Transient == {"PermissionDenied", "WouldBlock"}

\* What File::open followed by the read loop can do: open and read to the end,
\* open and fail in a read, or fail to open with some error kind.
OpenResults == {"ok", "readerr"} \cup Transient \cup {"NotFound"}

Terminal == {"done", "failed", "skipped"}

\* Every file taken for a stub.
IsStubAlways(p) == TRUE

\* Lines 47-50: file_size == 0, an unreadable size being taken as 0.
IsStub(p) == UnwrapOr(get_file_size(p), 0) = 0

\* The sleep left out of the retry loop.
BackoffNever(r, n) == 0

\* The sleep taken on every failed open, before the error kind is looked at.
BackoffAlways(r, n) == IF r \in {"ok", "readerr"} THEN 0 ELSE 1

\* Lines 78-86: the sleeps that follow an open answering r after n retries.
Backoff(r, n) == IF r \in Transient /\ ~Exhausted(n) THEN 1 ELSE 0

\* Lines 213-217, 46-50, 94-96: a worker takes a file and enters
\* fetch_file_with_progress; a file of non-zero length is no stub and returns Ok.
Begin(i) ==
    /\ mainpc = "files"
    /\ fpc[i] = "idle"
    /\ ~ffull
    /\ fpc' = [fpc EXCEPT ![i] =
                 IF IsStub(files[i]) THEN "open" ELSE "fetched"]
    /\ UNCHANGED <<fsvars, histvars, catvars, dirvars, run, mainpc, result,
                   ffull, retries, opens, sleeps, outcome>>

\* Lines 61-92: one turn of the retry loop, File::open answering r.
Open(i, r) ==
    /\ mainpc = "files"
    /\ fpc[i] = "open"
    /\ opens' = [opens EXCEPT ![i] = @ + 1]
    /\ sleeps' = [sleeps EXCEPT ![i] = @ + Backoff(r, retries[i])]
    /\ IF r \in {"ok", "readerr"}
       THEN \* lines 63-76: a read error ends the while-let loop like end of file
            /\ fpc' = [fpc EXCEPT ![i] = "fetched"]
            /\ outcome' = [outcome EXCEPT ![i] = IF r = "readerr" THEN "ReadError" ELSE @]
            /\ UNCHANGED retries
       ELSE IF r \in Transient
       THEN IF Exhausted(retries[i])
            THEN /\ fpc' = [fpc EXCEPT ![i] = "fetcherr"]
                 /\ outcome' = [outcome EXCEPT ![i] = "LockTimeout"]
                 /\ UNCHANGED retries
            ELSE /\ retries' = [retries EXCEPT ![i] = @ + 1]
                 /\ UNCHANGED <<fpc, outcome>>
       ELSE /\ fpc' = [fpc EXCEPT ![i] = "fetcherr"]
            /\ outcome' = [outcome EXCEPT ![i] = "Io"]
            /\ UNCHANGED retries
    /\ UNCHANGED <<fsvars, histvars, catvars, dirvars, run, mainpc, result, ffull>>

\* The closure going on to move_file after a failed fetch.
AfterFetchErrGoesOn == "fetched"

\* Line 219: return Err(e)
AfterFetchErr == "failed"

\* Lines 217-220: the closure returns the Err of the fetch.
FetchErr(i) ==
    /\ mainpc = "files"
    /\ fpc[i] = "fetcherr"
    /\ fpc' = [fpc EXCEPT ![i] = AfterFetchErr]
    /\ ffull' = TRUE
    /\ retries' = [retries EXCEPT ![i] = 0]
    /\ opens' = [opens EXCEPT ![i] = 0]
    /\ sleeps' = [sleeps EXCEPT ![i] = 0]
    /\ UNCHANGED <<fsvars, histvars, catvars, dirvars, run, mainpc, result, outcome>>

\* Lines 223, 102-105, 34-37: move_file enters create_target_directory_structure,
\* which tests target_path.exists().
move_file(i) ==
    /\ mainpc = "files"
    /\ fpc[i] = "fetched"
    /\ fpc' = [fpc EXCEPT ![i] = IF DirPresent(target_path_of(files[i])) THEN "check" ELSE "create"]
    /\ retries' = [retries EXCEPT ![i] = 0]
    /\ opens' = [opens EXCEPT ![i] = 0]
    /\ sleeps' = [sleeps EXCEPT ![i] = 0]
    /\ outcome' = [outcome EXCEPT ![i] = "none"]
    /\ UNCHANGED <<fsvars, histvars, catvars, dirvars, run, mainpc, result, ffull>>

\* Lines 38, 105: fs::create_dir_all(&target_path)? inside move_file.
Create(i, ok) ==
    /\ mainpc = "files"
    /\ fpc[i] = "create"
    /\ IF CreateDirAllOk(target_path_of(files[i]), ok)
       THEN /\ kind' = CreateDirAll(target_path_of(files[i]))
            /\ fpc' = [fpc EXCEPT ![i] = "check"]
            /\ UNCHANGED <<ffull, outcome>>
       ELSE /\ kind' = kind
            /\ fpc' = [fpc EXCEPT ![i] = "failed"]
            /\ outcome' = [outcome EXCEPT ![i] = "MkdirFailed"]
            /\ ffull' = TRUE
    /\ UNCHANGED <<data, len, locked, histvars, catvars, dirvars, run, mainpc, result,
                   retries, opens, sleeps>>

\* The file put straight under the target root.
target_file_flat(source) == Join(TargetRoot, FileName(source))

\* Line 109: where move_file puts the file.
target_file_of(source) == Join(target_path_of(source), FileName(source))

\* move_file without the test of line 114: it copies whatever is there.
TargetPresentNever(source) == FALSE

\* Line 114: target_path.exists()
TargetPresent(source) == Exists(target_file_of(source))

\* Lines 113-117: a file that is there is left alone.
Check(i) ==
    /\ mainpc = "files"
    /\ fpc[i] = "check"
    /\ IF TargetPresent(files[i])
       THEN /\ fpc' = [fpc EXCEPT ![i] = "done"]
            /\ outcome' = [outcome EXCEPT ![i] = "Skipped"]
       ELSE /\ fpc' = [fpc EXCEPT ![i] = "copy"]
            /\ outcome' = outcome
    /\ UNCHANGED <<fsvars, histvars, catvars, dirvars, run, mainpc, result, ffull,
                   retries, opens, sleeps>>

\* fs::copy(source, target): needs the source file and the target's directory.
CanCopy(source, target) == IsFile(source) /\ IsDir(Parent(target)) /\ ~IsDir(target)

\* A move that takes the source away.
RenameFile(source, target) == [kind EXCEPT ![target] = "file", ![source] = "absent"]

\* Line 119: fs::copy leaves the source where it is.
CopyFile(source, target) == [kind EXCEPT ![target] = "file"]

\* Lines 119-128, 223-226: copy(source_path, target_path); ok is whether the
\* system lets the copy through.
Copy(i, ok) ==
    /\ mainpc = "files"
    /\ fpc[i] = "copy"
    /\ IF ok /\ CanCopy(files[i], target_file_of(files[i]))
       THEN /\ kind' = CopyFile(files[i], target_file_of(files[i]))
            /\ data' = [data EXCEPT ![target_file_of(files[i])] = data[files[i]]]
            /\ fpc' = [fpc EXCEPT ![i] = "done"]
            /\ outcome' = [outcome EXCEPT ![i] = "Copied"]
            /\ ffull' = ffull
       ELSE /\ UNCHANGED <<kind, data>>
            /\ fpc' = [fpc EXCEPT ![i] = "failed"]
            /\ outcome' = [outcome EXCEPT ![i] = "CopyFailed"]
            /\ ffull' = TRUE
    /\ UNCHANGED <<len, locked, histvars, catvars, dirvars, run, mainpc, result,
                   retries, opens, sleeps>>

\* collect::<Result<Vec<_>, _>>() hands out no further item once one returned Err.
Skip(i) ==
    /\ mainpc = "files"
    /\ fpc[i] = "idle"
    /\ ffull
    /\ fpc' = [fpc EXCEPT ![i] = "skipped"]
    /\ outcome' = [outcome EXCEPT ![i] = "NotRun"]
    /\ UNCHANGED <<fsvars, histvars, catvars, dirvars, run, mainpc, result, ffull,
                   retries, opens, sleeps>>

\* Lines 230-232: the ? after collect, then Ok(()).
FilesDone ==
    /\ mainpc = "files"
    /\ \A i \in DOMAIN fpc : fpc[i] \in Terminal
    /\ mainpc' = "done"
    /\ result' = IF \E i \in DOMAIN fpc : fpc[i] = "failed" THEN "Err" ELSE "Ok"
    /\ UNCHANGED <<fsvars, histvars, catvars, dirvars, filevars, run>>

\* The program is started again on the same source and the target it left.
Rerun ==
    /\ mainpc = "done"
    /\ result = "Ok"
    /\ run = 1
    /\ run' = 2
    /\ mainpc' = "visit"
    /\ result' = "none"
    /\ visitOk' = FALSE
    /\ dupd' = FALSE
    /\ files' = <<>>
    /\ dirs' = <<>>
    /\ dpc' = NoItems
    /\ dfull' = FALSE
    /\ fpc' = NoItems
    /\ ffull' = FALSE
    /\ retries' = NoItems
    /\ opens' = NoItems
    /\ sleeps' = NoItems
    /\ outcome' = NoItems
    /\ UNCHANGED <<fsvars, histvars>>

Next ==
    \/ \E rev \in BOOLEAN, dup \in SourcePaths : Visit(rev, dup)
    \/ \E i \in DOMAIN dpc : DirBegin(i)
    \/ \E i \in DOMAIN dpc, ok \in BOOLEAN : DirCreate(i, ok)
    \/ \E i \in DOMAIN dpc : DirSkip(i)
    \/ DirsDone
    \/ \E i \in DOMAIN fpc : Begin(i)
    \/ \E i \in DOMAIN fpc, r \in OpenResults : Open(i, r)
    \/ \E i \in DOMAIN fpc : FetchErr(i)
    \/ \E i \in DOMAIN fpc : move_file(i)
    \/ \E i \in DOMAIN fpc, ok \in BOOLEAN : Create(i, ok)
    \/ \E i \in DOMAIN fpc : Check(i)
    \/ \E i \in DOMAIN fpc, ok \in BOOLEAN : Copy(i, ok)
    \/ \E i \in DOMAIN fpc : Skip(i)
    \/ FilesDone
    \/ Rerun

Spec == Init /\ [][Next]_vars

\* The catalog builder alone, on every source tree of the model.
InitVisit == InitFs({"file", "absent"}) /\ InitRest
NextVisit == \E rev \in BOOLEAN, dup \in SourcePaths : Visit(rev, dup)
SpecVisit == InitVisit /\ [][NextVisit]_vars

TypeOK ==
    /\ mainpc \in {"visit", "dirs", "files", "done"}
    /\ result \in {"none", "Ok", "Err"}
    /\ run \in 1..2

\* ------------------------------------------------------------------ claims
\* How the fetch of a file item can fail.
FetchFailures == {"LockTimeout", "Io"}

\* C1: per-file failure containment: when the fetch or the copy of one file has
\* failed, every other file of the catalog has still been attempted (fetched, then
\* copied or skipped as present) when the run ends; none is left unprocessed.
C1_FailureContainment ==
    (mainpc = "done" /\ \E i \in DOMAIN fpc : fpc[i] = "failed" /\ outcome[i] \in FetchFailures \cup {"CopyFailed"})
        => \A j \in DOMAIN fpc : fpc[j] \in {"done", "failed"}

C3_OnlyRootFatal == mainpc = "done" => (result = "Err" <=> ~visitOk)

\* C4: when the source root is no directory (a regular file or a missing path),
\* the catalog build fails and the run ends with a failure; it never returns a
\* successful empty catalog.
C4_RootValidation ==
    (mainpc # "visit" /\ ~IsDir(SourceRoot)) => (~visitOk /\ mainpc = "done" /\ result = "Err")

\* The mirror of a source path in the target: TargetRoot / (p relative to SourceRoot).
Mirror(p) == Join(TargetRoot, StripPrefix(p, SourceRoot))

\* C5: idempotence: in a second run on the unchanged source and the target a
\* fully successful first run left, no step changes the file system (no directory
\* is created, no file is copied), and every file that reaches the test of
\* move_file takes the already-present branch.
C5_Idempotent ==
    [][run = 2 =>
          /\ kind' = kind
          /\ data' = data
          /\ \A i \in DOMAIN dpc' : dpc'[i] \notin {"create", "err"}
          /\ \A i \in DOMAIN fpc' :
                /\ fpc'[i] \notin {"create", "copy"}
                /\ outcome'[i] \notin {"Copied", "CopyFailed", "MkdirFailed"}
                /\ fpc'[i] = "done" => outcome'[i] = "Skipped"]_vars

\* A second run has ended well after a first run that copied two files below a
\* catalogued directory.
C5_Witness ==
    /\ run = 2 /\ mainpc = "done" /\ result = "Ok"
    /\ Len(files) = 2 /\ Len(dirs) >= 1
    /\ \A i \in DOMAIN fpc : outcome[i] = "Skipped"
    /\ \A i \in DOMAIN files : kind0[Mirror(files[i])] = "absent"

\* C6 as stated: after a run that ends successfully, every regular file at R
\* under the source root has a file at TargetRoot/R with the same content.
C6_EveryFileMirrored ==
    (mainpc = "done" /\ result = "Ok") =>
        \A p \in SourcePaths \ {SourceRoot} :
            IsFile(p) => (IsFile(Mirror(p)) /\ data[Mirror(p)] = data[p])

\* The directories above a source path, below the root and the root included.
Above(p) == {q \in SourcePaths : Len(q) < Len(p) /\ SubSeq(p, 1, Len(q)) = q}

\* C6 as amended: after a run that ends successfully, every regular file at R
\* under the source root that is not below a directory whose listing failed has
\* an entry at TargetRoot/R: what stood there before the run, unchanged, or else
\* a file with the content of SourceRoot/R.
C6_StructurePreserved ==
    (mainpc = "done" /\ result = "Ok") =>
        \A p \in SourcePaths \ {SourceRoot} :
            (IsFile(p) /\ Above(p) \cap locked = {}) =>
                IF kind0[Mirror(p)] # "absent"
                THEN kind[Mirror(p)] = kind0[Mirror(p)] /\ data[Mirror(p)] = data0[Mirror(p)]
                ELSE IsFile(Mirror(p)) /\ data[Mirror(p)] = data[p]

\* A first run has ended well, having copied a file below a directory and left
\* alone one that stood in the target.
C6_Witness ==
    /\ run = 1 /\ mainpc = "done" /\ result = "Ok"
    /\ \E i \in DOMAIN files :
          /\ outcome[i] = "Copied" /\ Len(files[i]) > 2
          /\ data[Mirror(files[i])] = data[files[i]]
    /\ \E i \in DOMAIN files : outcome[i] = "Skipped" /\ data[Mirror(files[i])] = OldData

\* C7: after the directory phase of main, every directory of the directory
\* catalog, empty and leaf directories included, exists at its mirrored target
\* path (a directory entry maps to itself).
C7_DirectoryMapping ==
    mainpc = "files" => \A i \in DOMAIN dirs : IsDir(Mirror(dirs[i]))

\* C8: the file list and the directory list visit_dirs returns each hold no path
\* more than once, whatever the listings gathered.
C8_NoDuplicates == mainpc # "visit" => (~HasDup(files) /\ ~HasDup(dirs))

\* visit_dirs has returned a catalog of files and directories after gathering
\* some path twice.
C8_Witness == mainpc = "dirs" /\ dupd /\ Len(files) >= 3 /\ Len(dirs) >= 2

\* Reported size with an unreadable size counted as zero.
SizeOrZero(p) == UnwrapOr(get_file_size(p), 0)

\* C9: the file list visit_dirs returns is in non-increasing order of reported
\* size (unreadable counted as zero): of two catalogued files, the larger one
\* comes first, whichever directory it came from.
C9_LargestFirst ==
    mainpc # "visit" =>
        \A i, j \in DOMAIN files : SizeOrZero(files[i]) > SizeOrZero(files[j]) => i < j

\* The catalog holds a larger file of a subdirectory before a smaller file of
\* the root that precedes it in path order, and a file of unreadable size.
C9_Witness ==
    /\ mainpc = "dirs"
    /\ \E i, j \in DOMAIN files :
          /\ i < j /\ PathLess(files[j], files[i])
          /\ Len(files[i]) > Len(files[j])
          /\ SizeOrZero(files[i]) > SizeOrZero(files[j])
    /\ \E k \in DOMAIN files : get_file_size(files[k]) = None

\* C10: a file that stands at the exact target path is never overwritten:
\* move_file returns success for its source file without copying, and its
\* content stays what it was before the run, whatever the source holds.
C10_NoOverwrite ==
    \A p \in TargetPaths :
        kind0[p] = "file" =>
            /\ kind[p] = "file" /\ data[p] = data0[p]
            /\ \A i \in DOMAIN files :
                  target_file_of(files[i]) = p =>
                      /\ fpc[i] # "copy"
                      /\ outcome[i] \notin {"Copied", "CopyFailed"}
                      /\ fpc[i] = "done" => outcome[i] = "Skipped"

\* move_file has returned for a source file whose target stood there with
\* another content.
C10_Witness ==
    \E i \in DOMAIN files :
        /\ fpc[i] = "done" /\ outcome[i] = "Skipped" /\ run = 1
        /\ kind0[target_file_of(files[i])] = "file"
        /\ data[target_file_of(files[i])] # data[files[i]]

\* The paths of a list.
Range(s) == {s[i] : i \in DOMAIN s}

\* The source paths that are not an unreadable directory nor below one.
Reachable == {p \in SourcePaths \ {SourceRoot} : (Above(p) \cup {p}) \cap locked = {}}

\* C11: when the listing of one subdirectory below the root fails, visit_dirs
\* still returns Ok; its catalog holds every file and directory that is not in
\* that subtree and nothing of the subtree; and the run ends well, with every
\* catalogued file at its target path, unless some file or directory operation
\* fails.
C11_SubtreeContained ==
    (mainpc # "visit" /\ IsDir(SourceRoot) /\ locked # {} /\ SourceRoot \notin locked) =>
        /\ visitOk
        /\ Range(files) = {p \in Reachable : IsFile(p)}
        /\ Range(dirs) = {p \in Reachable : IsDir(p)}
        /\ (mainpc = "done" /\ (\A i \in DOMAIN dpc : dpc[i] # "err")
                            /\ (\A i \in DOMAIN fpc : fpc[i] # "failed")) =>
              /\ result = "Ok"
              /\ \A i \in DOMAIN files : Exists(Mirror(files[i]))

\* A run has ended well on a tree whose directory a could not be listed, with f
\* copied.
C11_Witness ==
    /\ mainpc = "done" /\ result = "Ok" /\ run = 1
    /\ locked = {Src(<<2>>)}
    /\ IsFile(Src(<<2, 1>>))
    /\ \E i \in DOMAIN files : files[i] = Src(<<1>>) /\ outcome[i] = "Copied"

\* C12: mid-stream read failure: a stub that opened and whose read then failed
\* is never handed on as fetched; fetch_file_with_progress returns a failure for it.
C12_ReadFailureFails ==
    \A i \in DOMAIN fpc : outcome[i] = "ReadError" => fpc[i] # "fetched"

\* C13: non-transient open failure: the open that ends with an error other than
\* PermissionDenied or WouldBlock makes the fetch fail at once: it is counted as
\* one more open, is followed by no sleep and no retry whatever the retry count,
\* and the failed fetch goes nowhere but to the Err of the closure, with no
\* further open.
C13_NonTransientImmediate ==
    [][\A i \in DOMAIN fpc :
          /\ (fpc[i] = "open" /\ outcome'[i] = "Io") =>
                /\ fpc'[i] = "fetcherr"
                /\ opens'[i] = opens[i] + 1
                /\ sleeps'[i] = sleeps[i]
                /\ retries'[i] = retries[i]
          /\ (fpc[i] = "fetcherr" /\ outcome[i] = "Io") =>
                /\ opens[i] = sleeps[i] + 1
                /\ fpc'[i] \in {"fetcherr", "failed"}
                /\ opens'[i] <= opens[i]
                /\ sleeps'[i] <= sleeps[i]]_vars

\* A fetch has failed with an I/O error on the open that followed two retries.
C13_Witness ==
    \E i \in DOMAIN fpc :
        /\ fpc[i] = "fetcherr" /\ outcome[i] = "Io"
        /\ retries[i] = 2 /\ sleeps[i] = 2 /\ opens[i] = 3

C15_StubIffZero ==
    \A i \in DOMAIN fpc : opens[i] >= 1 => get_file_size(files[i]) = Some(0)

\* C15 as amended: fetch_file_with_progress opens and reads a file if and only if
\* its reported length is zero or its length cannot be read; a file with a
\* non-zero reported length is fetched at once, with no open, sleep or retry.
C15_StubClassification ==
    [][\A i \in DOMAIN fpc :
          /\ (fpc[i] = "idle" /\ fpc'[i] \notin {"idle", "skipped"}) =>
                /\ fpc'[i] = "open" <=> len[files[i]] \in {None, Some(0)}
                /\ fpc'[i] = "fetched" <=> len[files[i]] \notin {None, Some(0)}
                /\ opens'[i] = 0 /\ sleeps'[i] = 0 /\ retries'[i] = 0
          /\ (opens[i] >= 1 \/ sleeps[i] >= 1 \/ retries[i] >= 1) =>
                len[files[i]] \in {None, Some(0)}]_vars

\* A file whose length cannot be read has been opened, and a file of non-zero
\* length stands fetched without any open.
C15_Witness ==
    /\ \E i \in DOMAIN fpc : opens[i] >= 1 /\ get_file_size(files[i]) = None
    /\ \E i \in DOMAIN fpc :
          /\ fpc[i] = "fetched" /\ opens[i] = 0
          /\ get_file_size(files[i]) \notin {None, Some(0)}

\* C16: concurrent directory creation: a call of
\* create_target_directory_structure that saw its directory missing and finds it
\* made by another worker when it creates returns success and changes nothing;
\* after every successful call, from the directory pass or from move_file, the
\* directory is there.
C16_ConcurrentCreate ==
    [][/\ \A i \in DOMAIN dpc :
             /\ (dpc[i] = "create" /\ IsDir(target_path_of(dirs[i])) /\ dpc'[i] # "create") =>
                   (dpc'[i] = "ok" /\ kind' = kind /\ ~dfull')
             /\ dpc[i] = "ok" => IsDir(target_path_of(dirs[i]))
       /\ \A i \in DOMAIN fpc :
             /\ (fpc[i] = "create" /\ IsDir(target_path_of(files[i])) /\ fpc'[i] # "create") =>
                   (fpc'[i] = "check" /\ kind' = kind /\ ffull' = ffull)
             /\ fpc[i] = "check" => IsDir(target_path_of(files[i]))]_vars

\* Two workers saw the same directory missing; one has made it and the other is
\* about to create it.
C16_Witness ==
    \E i, j \in DOMAIN fpc :
        /\ i # j
        /\ target_path_of(files[i]) = target_path_of(files[j])
        /\ kind0[target_path_of(files[i])] = "absent"
        /\ IsDir(target_path_of(files[i]))
        /\ fpc[i] = "create"
        /\ fpc[j] = "check"

\* C17: directory before file: whenever a worker is about to copy a file to its
\* target path, the parent directory of that path is there.
C17_DirectoryBeforeFile ==
    \A i \in DOMAIN fpc :
        fpc[i] = "copy" => IsDir(Parent(target_file_of(files[i])))

\* A file below a/ is about to be copied into a directory that was missing when
\* the run began.
C17_Witness ==
    \E i \in DOMAIN fpc :
        /\ fpc[i] = "copy"
        /\ Len(files[i]) > 2
        /\ kind0[Parent(target_file_of(files[i]))] = "absent"

\* C18: materialize before copy: an item enters move_file only from a fetch that
\* returned Ok; an item whose fetch failed with a lock timeout or an I/O error
\* goes to the Err of the closure and nowhere else, its own steps change nothing
\* in the file system, and its target file is as it was before the run.
C18_MaterializeBeforeCopy ==
    [][mainpc = "files" =>
          \A i \in DOMAIN fpc :
              /\ (fpc[i] \notin {"create", "check"} /\ fpc'[i] \in {"create", "check"}) =>
                    (fpc[i] = "fetched" /\ outcome[i] \notin FetchFailures)
              /\ fpc'[i] = "copy" => fpc[i] \in {"check", "copy"}
              /\ (fpc[i] = "fetcherr" \/ outcome[i] \in FetchFailures) =>
                    /\ fpc[i] \in {"fetcherr", "failed"}
                    /\ fpc'[i] \in {"fetcherr", "failed"}
                    /\ fpc'[i] # fpc[i] => (kind' = kind /\ data' = data)
                    /\ run = 1 =>
                          /\ kind[target_file_of(files[i])] = kind0[target_file_of(files[i])]
                          /\ data[target_file_of(files[i])] = data0[target_file_of(files[i])]]_vars

\* The fetch of one file has failed with an I/O error and nothing stands at its
\* target path, while another file has been copied.
C18_Witness ==
    \E i, j \in DOMAIN fpc :
        /\ fpc[i] = "failed" /\ outcome[i] = "Io"
        /\ ~Exists(target_file_of(files[i]))
        /\ outcome[j] = "Copied"

\* C19: the source is read-only: no step changes the kind, the content or the
\* length of a path under the source root, so the source tree is at every moment
\* what it was before the first run.
C19_SourceReadOnly ==
    [][\A p \in SourcePaths :
          /\ kind'[p] = kind[p] /\ data'[p] = data[p] /\ len'[p] = len[p]
          /\ kind'[p] = kind0[p] /\ data'[p] = data0[p]]_vars

\* A run has ended with one file copied and another failed, and the copied file
\* still stands in the source with its content.
C19_Witness ==
    /\ mainpc = "done" /\ result = "Err"
    /\ \E i, j \in DOMAIN fpc :
          /\ outcome[i] = "Copied" /\ fpc[j] = "failed"
          /\ IsFile(files[i])
          /\ data[files[i]] = data[target_file_of(files[i])]

\* C20: no write-write race on a target file: two entries of the catalog never
\* have the same target path, so no two workers are in the exists-check-then-copy
\* of move_file on one path.
C20_NoWriteRace ==
    \A i, j \in DOMAIN files :
        i # j =>
            /\ target_file_of(files[i]) # target_file_of(files[j])
            /\ ~(/\ fpc[i] \in {"check", "copy"}
                 /\ fpc[j] \in {"check", "copy"}
                 /\ target_file_of(files[i]) = target_file_of(files[j]))

\* Two workers are in the check-then-copy of move_file at once, after a listing
\* that had repeated an entry.
C20_Witness ==
    /\ dupd
    /\ \E i, j \in DOMAIN fpc :
          /\ i # j
          /\ fpc[i] \in {"check", "copy"}
          /\ fpc[j] = "copy"

====
